---- MODULE Spec2Model ----
(***************************************************************************)
(* Model of gd.py: a command-line front-end that shells out to the gdrive  *)
(* tool.  Python strings are sequences of one-character strings; a Python  *)
(* value is a tagged record (None, str, dict).                             *)
(***************************************************************************)
EXTENDS Integers, Sequences, FiniteSets, TLC

\* ------------------------------------------------------------------ bounds
MaxSegs == 3

MaxLines == 3

MaxPrompts == 2

\* ------------------------------------------------------- Python str methods
NL == "\n"

Whitespace == {" ", NL, "\t"}

Digits == {"0", "1", "2", "3", "4", "5", "6", "7", "8", "9"}

Upper == <<"A", "B", "C", "D", "E", "F", "G", "H", "I", "J", "K", "L", "M",
           "N", "O", "P", "Q", "R", "S", "T", "U", "V", "W", "X", "Y", "Z">>

Lower == <<"a", "b", "c", "d", "e", "f", "g", "h", "i", "j", "k", "l", "m",
           "n", "o", "p", "q", "r", "s", "t", "u", "v", "w", "x", "y", "z">>

Range(s) == {s[i] : i \in DOMAIN s}

\* the regex class \w
WordChars == Range(Upper) \cup Range(Lower) \cup Digits \cup {"_"}

\* str.lower() on one character
lower_char(c) ==
    IF c \in Range(Upper) THEN Lower[CHOOSE i \in DOMAIN Upper : Upper[i] = c] ELSE c

\* str.lower()
lower(s) == [i \in DOMAIN s |-> lower_char(s[i])]

\* number of leading whitespace characters of s
RECURSIVE LeadWs(_)
LeadWs(s) ==
    IF s = <<>> \/ Head(s) \notin Whitespace THEN 0 ELSE 1 + LeadWs(Tail(s))

\* number of trailing whitespace characters of s
RECURSIVE TrailWs(_)
TrailWs(s) ==
    IF s = <<>> \/ s[Len(s)] \notin Whitespace THEN 0
    ELSE 1 + TrailWs(SubSeq(s, 1, Len(s) - 1))

\* str.lstrip()
lstrip(s) == SubSeq(s, LeadWs(s) + 1, Len(s))

\* str.strip()
strip(s) == LET t == lstrip(s) IN SubSeq(t, 1, Len(t) - TrailWs(t))

\* length of the run of non-whitespace characters s starts with
RECURSIVE TokenLen(_)
TokenLen(s) ==
    IF s = <<>> \/ Head(s) \in Whitespace THEN 0 ELSE 1 + TokenLen(Tail(s))

\* str.split(maxsplit=n) with no separator: runs of whitespace separate, no
\* empty token; after n splits the remainder (leading whitespace removed,
\* trailing whitespace kept) is the last token.  n = -1 is no limit.
RECURSIVE split_max(_, _)
split_max(s, n) ==
    LET t == lstrip(s)
        k == TokenLen(t)
    IN  IF t = <<>> THEN <<>>
        ELSE IF n = 0 THEN <<t>>
        ELSE <<SubSeq(t, 1, k)>> \o split_max(SubSeq(t, k + 1, Len(t)), IF n < 0 THEN n ELSE n - 1)

\* str.split()
split(s) == split_max(s, -1)

\* index of the first occurrence of character c in s, 0 when there is none
RECURSIVE Find(_, _)
Find(s, c) ==
    IF s = <<>> THEN 0
    ELSE IF Head(s) = c THEN 1
    ELSE LET r == Find(Tail(s), c) IN IF r = 0 THEN 0 ELSE r + 1

\* str.split(sep) for a one-character separator: empty pieces are kept
RECURSIVE split_sep(_, _)
split_sep(s, sep) ==
    LET k == Find(s, sep)
    IN  IF k = 0 THEN <<s>>
        ELSE <<SubSeq(s, 1, k - 1)>> \o split_sep(SubSeq(s, k + 1, Len(s)), sep)

\* str.splitlines(): like split on the line break, but the empty text has no
\* line and a final line break opens no further line
splitlines(s) ==
    IF s = <<>> THEN <<>>
    ELSE IF s[Len(s)] = NL THEN split_sep(SubSeq(s, 1, Len(s) - 1), NL)
    ELSE split_sep(s, NL)

\* sep.join(parts) for a sequence of strings
RECURSIVE join(_, _)
join(sep, parts) ==
    IF parts = <<>> THEN <<>>
    ELSE IF Len(parts) = 1 THEN parts[1]
    ELSE parts[1] \o sep \o join(sep, Tail(parts))

\* os.path.basename: what follows the last slash
RECURSIVE basename(_)
basename(p) ==
    LET k == Find(p, "/") IN IF k = 0 THEN p ELSE basename(SubSeq(p, k + 1, Len(p)))

\* os.path.join of two components
path_join(a, b) ==
    IF b # <<>> /\ Head(b) = "/" THEN b
    ELSE IF a = <<>> \/ a[Len(a)] = "/" THEN a \o b
    ELSE a \o <<"/">> \o b

\* --------------------------------------------------------- Python values
\* None, a str (v: its characters) or a dict (v: its <<key, value>> pairs)
None == [t |-> "None", v |-> <<>>]

Str(s) == [t |-> "str", v |-> s]

Dict(d) == [t |-> "dict", v |-> d]

\* the outcome of a call: a returned value, or the exception it raised
Return(val) == [exc |-> "none", val |-> val]

Raise(e) == [exc |-> e, val |-> None]

\* dict keys and words the program spells out
kId == <<"I", "d">>

kName == <<"N", "a", "m", "e">>

kType == <<"T", "y", "p", "e">>

folder == <<"f", "o", "l", "d", "e", "r">>

document == <<"d", "o", "c", "u", "m", "e", "n", "t">>

regular == <<"r", "e", "g", "u", "l", "a", "r">>

\* dict(zip(keys, vals)): pairs up to the shorter of the two
zip(keys, vals) ==
    [i \in 1..(IF Len(keys) < Len(vals) THEN Len(keys) ELSE Len(vals)) |-> <<keys[i], Str(vals[i])>>]

HasKey(d, k) == \E i \in DOMAIN d : d[i][1] = k

\* dict.get(k): the value under k, None when k is no key
get(d, k) == IF HasKey(d, k) THEN d[CHOOSE i \in DOMAIN d : d[i][1] = k][2] ELSE None

\* d[k] = val for a key d has
set_item(d, k, val) == [i \in DOMAIN d |-> IF d[i][1] = k THEN <<k, val>> ELSE d[i]]

\* truth value of a str or None
Truthy(x) == x.t # "None" /\ x.v # <<>>

\* to_dict: the header's tokens zipped with the first five tokens of line two
to_dict(output) ==
    LET lines == splitlines(output)
        headers == [i \in DOMAIN split(lines[1]) |-> strip(split(lines[1])[i])]
        values == [i \in DOMAIN split_max(lines[2], 4) |-> strip(split_max(lines[2], 4)[i])]
        data_dict == zip(headers, values)
    IN  IF Len(lines) < 2 THEN Raise("IndexError")
        ELSE IF ~HasKey(data_dict, kType) THEN Raise("KeyError")
        ELSE Return(Dict(set_item(data_dict, kType,
                 IF Truthy(get(data_dict, kType)) THEN get(data_dict, kType) ELSE None)))

\* ------------------------------------------------------------ format_output
\* length of the longest prefix of s made of characters of set
RECURSIVE RunLen(_, _)
RunLen(s, set) ==
    IF s = <<>> \/ Head(s) \notin set THEN 0 ELSE 1 + RunLen(Tail(s), set)

From(s, i) == SubSeq(s, i, Len(s))

Keywords == <<folder, document, regular>>

\* the type keyword standing at position q of line and followed by whitespace
KeywordAt(line, q) ==
    {j \in DOMAIN Keywords :
        /\ q + Len(Keywords[j]) <= Len(line)
        /\ SubSeq(line, q, q + Len(Keywords[j]) - 1) = Keywords[j]
        /\ line[q + Len(Keywords[j])] \in Whitespace}

\* group 3 of the pattern, ([\d\.]+\s\w+|), tried where the whitespace after
\* the keyword ends
size_group(rest) ==
    LET d == RunLen(rest, Digits \cup {"."})
        w == RunLen(From(rest, d + 2), WordChars)
    IN  IF d >= 1 /\ d + 1 <= Len(rest) /\ rest[d + 1] \in Whitespace /\ w >= 1
        THEN SubSeq(rest, 1, d + 1 + w) ELSE <<>>

\* re.match(r'\s*[^\s]+\s+(.+?)\s+(folder|document|regular)\s+([\d\.]+\s\w+|)', line)
\* a: last character of the first token; w: whitespace that follows it.  A
\* candidate <<k, e>> gives k of these to the \s+ and ends the name at e; the
\* greedy \s+ prefers the larger k, the lazy (.+?) the smaller e.
re_match(line) ==
    LET a == LeadWs(line) + TokenLen(lstrip(line))
        w == LeadWs(From(line, a + 1))
        cands == {c \in (1..w) \X (1..Len(line)) :
                    /\ c[2] >= a + c[1] + 1
                    /\ \A i \in (a + c[1] + 1)..c[2] : line[i] # NL
                    /\ LeadWs(From(line, c[2] + 1)) >= 1
                    /\ KeywordAt(line, c[2] + 1 + LeadWs(From(line, c[2] + 1))) # {}}
        best == CHOOSE c \in cands :
                    \A o \in cands : c[1] > o[1] \/ (c[1] = o[1] /\ c[2] <= o[2])
        q == best[2] + 1 + LeadWs(From(line, best[2] + 1))
        kw == Keywords[CHOOSE j \in KeywordAt(line, q) : TRUE]
        r == From(line, q + Len(kw))
    IN  IF a = LeadWs(line) \/ cands = {} THEN [ok |-> FALSE, g1 |-> <<>>, g2 |-> <<>>, g3 |-> <<>>]
        ELSE [ok |-> TRUE, g1 |-> SubSeq(line, a + best[1] + 1, best[2]), g2 |-> kw,
              g3 |-> size_group(lstrip(r))]

google_doc == <<"g", "o", "o", "g", "l", "e", " ", "d", "o", "c">>

arquivo == <<"a", "r", "q", "u", "i", "v", "o">>

pasta == <<"p", "a", "s", "t", "a">>

\* type_translation.get(t, t)
type_translation(t) ==
    IF t = document THEN google_doc
    ELSE IF t = regular THEN arquivo
    ELSE IF t = folder THEN pasta
    ELSE t

\* the rows format_output collects from lines[1:] and prints
RECURSIVE process_rows(_)
process_rows(lines) ==
    IF lines = <<>> THEN <<>>
    ELSE LET m == re_match(Head(lines))
         IN  (IF m.ok THEN << <<strip(m.g1), type_translation(strip(m.g2)), strip(m.g3)>> >>
              ELSE <<>>) \o process_rows(Tail(lines))

format_output(output_text) == process_rows(Tail(split_sep(strip(output_text), NL)))

\* ------------------------------------------------------------- the program
\* Texts the program only emits (argument vectors, messages) are sequences of
\* chunks; the parts taken from its inputs stay character by character.
NOT_FOUND_ERROR == <<"Arquivo ou pasta não encontrado.">>

CANCELLED == <<"Operação cancelada pelo usuário.">>

DELETED == <<"Apagado.">>

SENT == <<"Enviado com sucesso.">>

PROBLEM == <<"Ocorreu um problema. Revise os caminhos do arquivos e tente novamente.">>

BLANK == <<" ">>

\* f"A pasta de destino '{folder_name}' não foi encontrada."
destination_not_found(folder_name) ==
    <<"A pasta de destino '">> \o folder_name \o <<"' não foi encontrada.">>

\* f"O arquivo '{file_name}' já existe na pasta de destino."
already_exists(file_name) ==
    <<"O arquivo '">> \o file_name \o <<"' já existe na pasta de destino.">>

\* f"O arquivo foi exportado com sucesso para '{file_path}'."
exported(file_path) ==
    <<"O arquivo foi exportado com sucesso para '">> \o file_path \o <<"'.">>

\* _build_command: the argument vector of one invocation of the tool
_build_command(args) == << <<"gdrive">>, <<"files">> >> \o args

\* the response of the tool to one invocation: exit status and standard output
\* _execute: None on at most one line of output.  A non-zero exit raises
\* CalledProcessError, whose handler calls logging.error; the module never
\* imports logging, so the handler raises NameError.
_execute(resp) ==
    IF resp.exit # 0 THEN Raise("NameError")
    ELSE IF Len(splitlines(resp.stdout)) <= 1 THEN Return(None)
    ELSE Return(Str(resp.stdout))

\* a query that leaves the parent filter out
query_unscoped(object_name, parent_id) == <<"name='">> \o object_name \o <<"'">>

\* the query of _get_object
query(object_name, parent_id) ==
    <<"name='">> \o object_name \o <<"'">> \o
    (IF Truthy(parent_id) THEN <<" and '">> \o parent_id.v \o <<"' in parents">> ELSE <<>>)

\* the invocation _get_object makes
lookup_command(object_name, parent_id) ==
    _build_command(<< <<"list">>, <<"--query">>, query(object_name, parent_id) >>)

\* _get_object, given the tool's response to its invocation
_get_object(return_only_id, resp) ==
    LET result == _execute(resp)
        tokens == split(splitlines(result.val.v)[2])
    IN  IF result.exc # "none" THEN result
        ELSE IF ~Truthy(result.val) THEN Raise("ValueError")
        ELSE IF return_only_id
             THEN (IF tokens = <<>> THEN Raise("IndexError") ELSE Return(Str(tokens[1])))
        ELSE to_dict(result.val.v)

\* where an operation stands after a step: waiting at pc, about to invoke
\* command, or done with a return value or an escaped exception
Goto(p) == [pc |-> p, command |-> <<>>, ret |-> None, exc |-> "none"]

Exec(cmd) == [pc |-> "execute", command |-> cmd, ret |-> None, exc |-> "none"]

Done(val) == [pc |-> "done", command |-> <<>>, ret |-> val, exc |-> "none"]

Escape(e) == [pc |-> "done", command |-> <<>>, ret |-> None, exc |-> e]

\* one lookup of _get_nested_object's walk: the value the walk returns (a
\* dict, or the message of the ValueError it catches), the next parent, or the
\* exception that leaves it
_get_nested_object(path_components, resp) ==
    LET r == _get_object(Len(path_components) > 1, resp)
    IN  IF r.exc = "ValueError" THEN [k |-> "return", val |-> Str(NOT_FOUND_ERROR), exc |-> "none"]
        ELSE IF r.exc # "none" THEN [k |-> "raise", val |-> None, exc |-> r.exc]
        ELSE IF Len(path_components) > 1 THEN [k |-> "next", val |-> r.val, exc |-> "none"]
        ELSE [k |-> "return", val |-> r.val, exc |-> "none"]

\* x.get(key) on what _get_nested_object returned: a str has no get
IsDict(x) == x.t = "dict"

recursive == <<"--recursive">>

\* download_file once the path is resolved
download_file(object) ==
    IF ~IsDict(object) THEN Escape("AttributeError")
    ELSE IF get(object.v, kType) = Str(document) THEN Goto("format_choice")
    ELSE IF get(object.v, kType) = Str(folder)
         THEN Exec(_build_command(<< <<"download">>, get(object.v, kId).v, recursive >>))
    ELSE Exec(_build_command(<< <<"download">>, get(object.v, kId).v >>))

\* update_file once the path is resolved
update_file(object, file_path) ==
    IF ~IsDict(object) THEN Escape("AttributeError")
    ELSE Exec(_build_command(<< <<"update">>, get(object.v, kId).v, file_path >>))

\* delete_file once the path is resolved: the prompt shows the object's Name
delete_file(object) ==
    IF ~IsDict(object) THEN Escape("AttributeError") ELSE Goto("confirmation")

sim == <<"s", "i", "m">>

yes == <<"y", "e", "s">>

\* a confirmation test that trims the line first
confirmed_stripped(confirmation) == lower(strip(confirmation)) \in {sim, <<"s">>, yes, <<"y">>}

\* confirmation.lower() in ('sim', 's', 'yes', 'y')
confirmed(confirmation) == lower(confirmation) \in {sim, <<"s">>, yes, <<"y">>}

\* delete_file once the prompt is answered
delete_confirmation(object, confirmation) ==
    IF ~confirmed(confirmation) THEN Done(Str(CANCELLED))
    ELSE IF get(object.v, kType) = Str(folder)
         THEN Exec(_build_command(<< <<"delete">>, get(object.v, kId).v, recursive >>))
    ELSE Exec(_build_command(<< <<"delete">>, get(object.v, kId).v >>))

\* upload_file once the destination folder is resolved
upload_file(folder_object, folder_name) ==
    IF ~IsDict(folder_object) THEN Escape("AttributeError")
    ELSE IF get(folder_object.v, kType) # Str(folder)
         THEN Done(Str(destination_not_found(folder_name)))
    ELSE Goto("existing")

\* the invocation upload_file makes
upload_command(file_path, isdir, parent_id) ==
    _build_command(<< <<"upload">>, file_path >>)
    \o (IF isdir THEN <<recursive>> ELSE <<>>)
    \o (IF Truthy(parent_id) THEN << <<"--parent">>, parent_id.v >> ELSE <<>>)

\* a collision test that refuses for regular files only
collides_regular(existing_file) ==
    existing_file.v # <<>> /\ get(existing_file.v, kType) = Str(regular)

\* whether upload_file refuses because of the object its lookup returned
collides(existing_file) ==
    existing_file.v # <<>> /\ get(existing_file.v, kType) # Str(document)

\* upload_file once the lookup of the base name has returned r
upload_existing(r, file_path, isdir, parent_id) ==
    IF r.exc \notin {"none", "ValueError"} THEN Escape(r.exc)
    ELSE IF r.exc = "none" /\ collides(r.val) THEN Done(Str(already_exists(basename(file_path))))
    ELSE Exec(upload_command(file_path, isdir, parent_id))

format_choices == {<<"1">>, <<"2">>, <<"3">>, <<"4">>, <<"5">>, <<"6">>, <<"7">>, <<"8">>}

\* a format map that knows the default only
format_map_default(format_choice) == <<"p", "d", "f">>

\* format_map.get(format_choice, 'pdf')
format_map(format_choice) ==
    CASE format_choice = <<"1">> -> <<"p", "d", "f">>
      [] format_choice = <<"2">> -> <<"d", "o", "c", "x">>
      [] format_choice = <<"3">> -> <<"o", "d", "t">>
      [] format_choice = <<"4">> -> <<"r", "t", "f">>
      [] format_choice = <<"5">> -> <<"t", "x", "t">>
      [] format_choice = <<"6">> -> <<"h", "t", "m", "l">>
      [] format_choice = <<"7">> -> <<"e", "p", "u", "b">>
      [] format_choice = <<"8">> -> <<"x", "l", "s", "x">>
      [] OTHER -> <<"p", "d", "f">>

\* str(x) inside an f-string
fstr(x) == IF x.t = "None" THEN <<"None">> ELSE x.v

\* the file path export_google_doc builds
export_path(object, format_choice, cwd) ==
    path_join(cwd, fstr(get(object.v, kName)) \o <<".">> \o format_map(format_choice))

\* the argument vector export_google_doc builds
export_command(object, format_choice, file_path) ==
    _build_command(<< <<"export">>, <<"--mime">>, <<"application/">> \o format_map(format_choice),
                      fstr(get(object.v, kId)), file_path >>)

\* export_google_doc once a line was read: ask again, or build the export
\* command and return the success message.  The command built is handed to
\* nothing: _execute is not called on it.
export_google_doc(object, format_choice, cwd) ==
    LET file_path == export_path(object, format_choice, cwd)
        built == export_command(object, format_choice, file_path)
    IN  IF format_choice \notin format_choices THEN Goto("format_choice")
        ELSE Done(Str(exported(file_path)))

\* what an operation returns once its last invocation has returned r
finish(o, object, r) ==
    IF r.exc # "none" THEN Escape(r.exc)
    ELSE CASE o \in {"download_file", "update_file"} -> Done(r.val)
           [] o = "delete_file" ->
                IF get(object.v, kType) = Str(folder) THEN Done(r.val) ELSE Done(Str(DELETED))
           [] o = "upload_file" -> Done(Str(IF Truthy(r.val) THEN SENT ELSE PROBLEM))
           [] OTHER -> Done(IF Truthy(r.val) THEN None ELSE Str(BLANK))

\* --------------------------------------------------------- the environment
\* names of path segments: one plain, one with a space inside
SegNames == {<<"a">>, <<"b", " ", "c">>}

\* the paths given on the command line: 1..MaxSegs segments joined by slashes
Paths == {join(<<"/">>, segs) : segs \in UNION {[1..n -> SegNames] : n \in 1..MaxSegs}}

Ids == {<<"i", "1">>, <<"i", "2">>}

Types == {folder, document, regular}

\* the header line of the tool's listings
HEADER == <<"I", "d", " ", "N", "a", "m", "e", " ", "T", "y", "p", "e", " ", "S", "i", "z", "e", " ", "C", "r", "e", "a", "t", "e", "d">>

\* no object: what a listing without a data line reports
NoObject == [id |-> <<>>, name |-> <<>>, type |-> <<>>]

\* the data line the tool prints for object o: identifier, name, type, size
\* (only a regular file has one) and creation date, in columns
Line(o) ==
    o.id \o <<" ", " ">> \o o.name \o <<" ", " ">> \o o.type \o <<" ", " ">>
    \o (IF o.type = regular THEN <<"1", "0", " ", "K", "B">> ELSE <<>>) \o <<" ", " ">> \o <<"2", "0", "2", "4">>

\* the tool's responses to a lookup of name: a non-zero exit, no output, the
\* header alone, or the header and the line of an object of that name.  Only
\* a folder has children, so a lookup that is not a path's last finds folders.
LookupResponses(name, last) ==
    {[exit |-> 1, stdout |-> <<>>, found |-> NoObject, lines |-> <<>>],
     [exit |-> 0, stdout |-> <<>>, found |-> NoObject, lines |-> <<>>],
     [exit |-> 0, stdout |-> HEADER \o <<NL>>, found |-> NoObject, lines |-> <<>>]}
    \cup {[exit |-> 0, stdout |-> HEADER \o <<NL>> \o Line(o) \o <<NL>>, found |-> o, lines |-> <<>>] :
            o \in {[id |-> i, name |-> name, type |-> t] :
                     i \in Ids, t \in (IF last THEN Types ELSE {folder})}}

\* the tool's responses to download, upload, update and delete
ActionResponses ==
    {[exit |-> 1, stdout |-> <<>>, found |-> NoObject, lines |-> <<>>],
     [exit |-> 0, stdout |-> <<>>, found |-> NoObject, lines |-> <<>>],
     [exit |-> 0, stdout |-> <<"o", "k", NL>>, found |-> NoObject, lines |-> <<>>],
     [exit |-> 0, stdout |-> <<"u", "p", NL, "o", "k", NL>>, found |-> NoObject, lines |-> <<>>]}

\* the lines of a listing: the text of each, and the row it stands for when it
\* has the form <id> <name> <type-keyword> <size-or-empty>
ListLines ==
    {[text |-> <<"i", "d", "1", " ", "r", "e", "p", "o", "r", "t", ".", "t", "x", "t", " ", "r", "e", "g", "u", "l", "a", "r", " ", "1", "0", " ", "K", "B">>,
      valid |-> TRUE, row |-> <<<<"r", "e", "p", "o", "r", "t", ".", "t", "x", "t">>, arquivo, <<"1", "0", " ", "K", "B">>>>],
     [text |-> <<"g", "a", "r", "b", "a", "g", "e", "-", "l", "i", "n", "e">>,
      valid |-> FALSE, row |-> <<>>],
     [text |-> <<"i", "d", "2", " ", "P", "h", "o", "t", "o", "s", " ", "f", "o", "l", "d", "e", "r", " ">>,
      valid |-> TRUE, row |-> <<<<"P", "h", "o", "t", "o", "s">>, pasta, <<>>>>]}

texts(lines) == [i \in DOMAIN lines |-> lines[i].text]

\* the tool's responses to a listing: a non-zero exit, or the header followed
\* by up to MaxLines lines
ListResponses ==
    {[exit |-> 1, stdout |-> <<>>, found |-> NoObject, lines |-> <<>>]}
    \cup {[exit |-> 0, stdout |-> join(<<NL>>, <<HEADER>> \o texts(lines)),
           found |-> NoObject, lines |-> lines] :
            lines \in UNION {[1..n -> ListLines] : n \in 0..MaxLines}}

\* the local files given to upload and update
LocalFiles ==
    {[path |-> <<"/", "t", "/", "f">>, isdir |-> FALSE],
     [path |-> <<"d">>, isdir |-> TRUE],
     [path |-> <<"m", " ">> \o document, isdir |-> FALSE]}

\* os.getcwd()
cwd == <<"/", "h">>

\* lines typed at the delete prompt
Confirmations ==
    {sim, <<"S", "I", "M">>, <<"s">>, <<"S">>, yes, <<"Y", "e", "s">>, <<"y">>, <<"Y">>,
     <<>>, <<" ", "y">>, <<"y", " ">>, <<"s", "i", "m", NL>>, <<"n">>, <<"n", "a", "o">>,
     <<"s", "i">>, <<"y", "e">>, <<"y", "y">>}

\* lines typed at the export prompt
Choices ==
    format_choices \cup {<<>>, <<"0">>, <<"9">>, <<"a">>, <<"1", " ">>, <<" ", "1">>, <<"1", "2">>}

\* ------------------------------------------------------------------- state
VARIABLES op, args, pc, path_components, parent_id, object, existing_file, command,
          format_choice, prompts, confirmation, calls, printed, listed, ret, exc

vars == <<op, args, pc, path_components, parent_id, object, existing_file, command,
          format_choice, prompts, confirmation, calls, printed, listed, ret, exc>>

NoArgs == [name |-> <<>>, file_path |-> <<>>, isdir |-> FALSE]

Init ==
    /\ op = "none"
    /\ args = NoArgs
    /\ pc = "idle"
    /\ path_components = <<>>
    /\ parent_id = None
    /\ object = None
    /\ existing_file = None
    /\ command = <<>>
    /\ format_choice = <<>>
    /\ prompts = 0
    /\ confirmation = <<>>
    /\ calls = <<>>
    /\ printed = <<>>
    /\ listed = <<>>
    /\ ret = None
    /\ exc = "none"

\* the record of one invocation: what it was for, its argument vector, the
\* tool's response and what _execute made of it
Call(role, cmd, resp) ==
    [role |-> role, command |-> cmd, exit |-> resp.exit, stdout |-> resp.stdout,
     found |-> resp.found,
     out |-> IF _execute(resp).exc # "none" THEN _execute(resp).exc
             ELSE _execute(resp).val.t]

\* an operation moves to k
Move(k) ==
    /\ pc' = k.pc
    /\ command' = k.command
    /\ ret' = k.ret
    /\ exc' = k.exc

\* what the first step of an operation leaves as it is
Fresh ==
    UNCHANGED <<parent_id, object, existing_file, command, format_choice, prompts,
                confirmation, calls, printed, listed, ret, exc>>

\* listar without a name: list_home
ListHome ==
    /\ pc = "idle"
    /\ op' = "list_home"
    /\ Move(Exec(_build_command(<< <<"list">>, <<"--order-by">>, <<"modifiedTime desc">> >>)))
    /\ UNCHANGED <<args, path_components, parent_id, object, existing_file, format_choice,
                   prompts, confirmation, calls, printed, listed>>

\* pesquisar: search_by_name
SearchByName ==
    /\ pc = "idle"
    /\ \E name \in SegNames :
        /\ op' = "search_by_name"
        /\ args' = [NoArgs EXCEPT !.name = name]
        /\ Move(Exec(_build_command(<< <<"list">>, <<"--full-name">>, <<"--query">>,
                                       <<"name contains '">> \o name \o <<"'">> >>)))
    /\ UNCHANGED <<path_components, parent_id, object, existing_file, format_choice,
                   prompts, confirmation, calls, printed, listed>>

\* listar with a name: list_folder
ListFolder ==
    /\ pc = "idle"
    /\ \E path \in Paths :
        /\ op' = "list_folder"
        /\ args' = [NoArgs EXCEPT !.name = path]
        /\ path_components' = split_sep(path, "/")
        /\ pc' = "folders"
    /\ Fresh

\* baixar: download_file
Download ==
    /\ pc = "idle"
    /\ \E path \in Paths :
        /\ op' = "download_file"
        /\ args' = [NoArgs EXCEPT !.name = path]
        /\ path_components' = split_sep(path, "/")
        /\ pc' = "nested"
    /\ Fresh

\* atualizar: update_file
Update ==
    /\ pc = "idle"
    /\ \E path \in Paths, f \in LocalFiles :
        /\ op' = "update_file"
        /\ args' = [name |-> path, file_path |-> f.path, isdir |-> f.isdir]
        /\ path_components' = split_sep(path, "/")
        /\ pc' = "nested"
    /\ Fresh

\* apagar: delete_file
Delete ==
    /\ pc = "idle"
    /\ \E path \in Paths :
        /\ op' = "delete_file"
        /\ args' = [NoArgs EXCEPT !.name = path]
        /\ path_components' = split_sep(path, "/")
        /\ pc' = "nested"
    /\ Fresh

\* enviar: upload_file, which walks the destination folder's path when one is
\* given and looks the base name up at the top otherwise
Upload ==
    /\ pc = "idle"
    /\ \E folder_name \in Paths \cup {<<>>}, f \in LocalFiles :
        /\ op' = "upload_file"
        /\ args' = [name |-> folder_name, file_path |-> f.path, isdir |-> f.isdir]
        /\ path_components' = split_sep(folder_name, "/")
        /\ pc' = IF folder_name # <<>> THEN "nested" ELSE "existing"
    /\ Fresh

\* what the caller of _get_nested_object does with the value it returned
resolved(o, val, a) ==
    CASE o = "download_file" -> download_file(val)
      [] o = "update_file" -> update_file(val, a.file_path)
      [] o = "delete_file" -> delete_file(val)
      [] OTHER -> upload_file(val, a.name)

\* one lookup of _get_nested_object, and what follows it up to the next
\* invocation or prompt
GetNestedObject ==
    /\ pc = "nested"
    /\ \E resp \in LookupResponses(Head(path_components), Len(path_components) = 1) :
        LET n == _get_nested_object(path_components, resp)
            k == IF n.k = "raise" THEN Escape(n.exc)
                 ELSE IF n.k = "next" THEN Goto("nested")
                 ELSE resolved(op, n.val, args)
        IN  /\ calls' = Append(calls, Call("segment", lookup_command(Head(path_components), parent_id), resp))
            /\ path_components' = Tail(path_components)
            /\ object' = IF n.k = "return" THEN n.val ELSE object
            /\ parent_id' = IF n.k = "next" THEN n.val
                            ELSE IF k.pc = "existing" THEN get(n.val.v, kId)
                            ELSE parent_id
            /\ Move(k)
    /\ UNCHANGED <<op, args, existing_file, format_choice, prompts, confirmation, printed, listed>>

\* one lookup of list_folder's walk; after the last, the listing of the children
ListFolderLookup ==
    /\ pc = "folders"
    /\ \E resp \in LookupResponses(Head(path_components), FALSE) :
        LET r == _get_object(TRUE, resp)
            k == IF r.exc = "ValueError" THEN Done(Str(NOT_FOUND_ERROR))
                 ELSE IF r.exc # "none" THEN Escape(r.exc)
                 ELSE IF Len(path_components) > 1 THEN Goto("folders")
                 ELSE Exec(_build_command(<< <<"list">>, <<"--full-name">>, <<"--query">>,
                                             <<"'">> \o fstr(r.val) \o <<"' in parents">>,
                                             <<"--order-by">>, <<"modifiedTime desc">> >>))
        IN  /\ calls' = Append(calls, Call("segment", lookup_command(Head(path_components), parent_id), resp))
            /\ path_components' = Tail(path_components)
            /\ parent_id' = IF r.exc = "none" THEN r.val ELSE parent_id
            /\ Move(k)
    /\ UNCHANGED <<op, args, object, existing_file, format_choice, prompts, confirmation,
                   printed, listed>>

\* upload_file's lookup of the base name at the destination
UploadExisting ==
    /\ pc = "existing"
    /\ \E resp \in LookupResponses(basename(args.file_path), TRUE) :
        LET r == _get_object(FALSE, resp)
        IN  /\ calls' = Append(calls, Call("existing", lookup_command(basename(args.file_path), parent_id), resp))
            /\ existing_file' = r.val
            /\ Move(upload_existing(r, args.file_path, args.isdir, parent_id))
    /\ UNCHANGED <<op, args, path_components, parent_id, object, format_choice, prompts,
                   confirmation, printed, listed>>

\* one line read at export_google_doc's prompt; lines that are no format are
\* counted up to MaxPrompts
ExportChoice ==
    /\ pc = "format_choice"
    /\ \E c \in Choices :
        /\ c \in format_choices \/ prompts < MaxPrompts
        /\ format_choice' = c
        /\ prompts' = prompts + 1
        /\ Move(export_google_doc(object, c, cwd))
    /\ UNCHANGED <<op, args, path_components, parent_id, object, existing_file, confirmation,
                   calls, printed, listed>>

\* the line read at delete_file's prompt
DeleteConfirmation ==
    /\ pc = "confirmation"
    /\ \E c \in Confirmations :
        /\ confirmation' = c
        /\ prompts' = prompts + 1
        /\ Move(delete_confirmation(object, c))
    /\ UNCHANGED <<op, args, path_components, parent_id, object, existing_file, format_choice,
                   calls, printed, listed>>

Listings == {"list_home", "search_by_name", "list_folder"}

\* the last invocation of an operation: _execute on the command built, and
\* for a listing format_output on what it returned
Execute ==
    /\ pc = "execute"
    /\ \E resp \in (IF op \in Listings THEN ListResponses ELSE ActionResponses) :
        LET r == _execute(resp)
        IN  /\ calls' = Append(calls, Call(IF op \in Listings THEN "listing" ELSE "action", command, resp))
            /\ listed' = resp.lines
            /\ printed' = IF op \in Listings /\ r.exc = "none" /\ Truthy(r.val)
                          THEN format_output(r.val.v) ELSE printed
            /\ pc' = finish(op, object, r).pc
            /\ ret' = finish(op, object, r).ret
            /\ exc' = finish(op, object, r).exc
    /\ UNCHANGED <<op, args, path_components, parent_id, object, existing_file, command,
                   format_choice, prompts, confirmation>>

Next ==
    \/ ListHome
    \/ SearchByName
    \/ ListFolder
    \/ Download
    \/ Update
    \/ Delete
    \/ Upload
    \/ GetNestedObject
    \/ ListFolderLookup
    \/ UploadExisting
    \/ ExportChoice
    \/ DeleteConfirmation
    \/ Execute

Spec == Init /\ [][Next]_vars

\* ------------------------------------------------------------------ claims
Last(q) == q[Len(q)]

\* the invocations made for the segments of the path, and the final ones
SegmentCalls == SelectSeq(calls, LAMBDA c : c.role = "segment")

ActionCalls == SelectSeq(calls, LAMBDA c : c.role = "action")

\* the segments of the path given
Segments == split_sep(args.name, "/")

\* the operations that resolve their path with _get_nested_object
NestedOps == {"download_file", "update_file", "delete_file", "upload_file"}

\* a lookup that matched nothing: the tool ran and listed no object
ZeroMatches(c) == c.exit = 0 /\ c.found = NoObject

\* C1: in Download, Update, Delete, Upload with a destination folder and
\* ListFolder, once a lookup of a path segment matched nothing the operation
\* ends by returning the not-found message, and no exception escapes it.
C1_NotFoundReturnsMessage ==
    (/\ op \in NestedOps \cup {"list_folder"}
     /\ pc = "done"
     /\ \E i \in DOMAIN SegmentCalls : ZeroMatches(SegmentCalls[i]))
    => (exc = "none" /\ ret = Str(NOT_FOUND_ERROR))

\* C2: every invocation that exits non-zero makes _execute return None and
\* raise nothing; only exit 0 with more than one line of output returns the
\* output text.
C2_NonZeroExitGivesNone ==
    \A i \in DOMAIN calls :
        /\ calls[i].exit # 0 => calls[i].out = "None"
        /\ calls[i].out = "str" <=> (calls[i].exit = 0 /\ Len(splitlines(calls[i].stdout)) > 1)

\* the spellings of token in upper and lower case
Spellings(token) ==
    {w \in [DOMAIN token -> Range(Upper) \cup Range(Lower)] :
        \A i \in DOMAIN token :
            \E j \in DOMAIN Lower : token[i] = Lower[j] /\ w[i] \in {Lower[j], Upper[j]}}

Affirmative == UNION {Spellings(t) : t \in {sim, <<"s">>, yes, <<"y">>}}

\* C3: Delete invokes the external delete only after the prompt was answered
\* with sim, s, yes or y in some mix of cases; after any other answer it
\* returns the 'operation cancelled' message and invokes no delete.
C3_DeleteOnlyAfterAffirmative ==
    op = "delete_file" =>
        /\ (pc = "execute" \/ ActionCalls # <<>>) => (prompts = 1 /\ confirmation \in Affirmative)
        /\ \A i \in DOMAIN ActionCalls : ActionCalls[i].command[3] = <<"delete">>
        /\ (prompts = 1 /\ confirmation \notin Affirmative) =>
              /\ pc = "done"
              /\ exc = "none"
              /\ ret = Str(CANCELLED)
              /\ ActionCalls = <<>>

\* C3 witness: a delete was invoked after the answer "Yes".
C3_Witness ==
    /\ op = "delete_file"
    /\ confirmation = <<"Y", "e", "s">>
    /\ ActionCalls # <<>>
    /\ Last(calls).command[3] = <<"delete">>

ExpectedLookup(name, prev) ==
    << <<"gdrive">>, <<"files">>, <<"list">>, <<"--query">>,
       <<"name='">> \o name \o <<"'">>
       \o (IF prev = <<>> THEN <<>> ELSE <<" and '">> \o prev \o <<"' in parents">>) >>

\* C5: _get_nested_object looks the segments up in order, the first without
\* a parent filter and each later one under the identifier the lookup before
\* it returned; lookups before the last keep the identifier only, the last
\* returns the full record; after a lookup that matched nothing resolution
\* has failed and no later segment is looked up.
C5_LookupsInSegmentOrder ==
    op \in NestedOps =>
        LET sc == SegmentCalls
        IN  /\ Len(sc) <= Len(Segments)
            /\ \A i \in DOMAIN sc :
                /\ sc[i].command = ExpectedLookup(Segments[i], IF i = 1 THEN <<>> ELSE sc[i - 1].found.id)
                /\ i > 1 => sc[i - 1].found # NoObject
            /\ (sc # <<>> /\ Last(sc).found # NoObject /\ Len(sc) < Len(Segments)) =>
                  /\ pc = "nested"
                  /\ parent_id = Str(Last(sc).found.id)
                  /\ object.t = "None"
            /\ (sc # <<>> /\ Last(sc).found # NoObject /\ Len(sc) = Len(Segments)) =>
                  /\ object.t = "dict"
                  /\ get(object.v, kId) = Str(Last(sc).found.id)
                  /\ HasKey(object.v, kName) /\ HasKey(object.v, kType)
            /\ (sc # <<>> /\ ZeroMatches(Last(sc))) =>
                  /\ pc = "done"
                  /\ object.t = "str" /\ object.v = NOT_FOUND_ERROR

\* C5 witness: a three-segment path was resolved, the second lookup under
\* one identifier and the third under another.
C5_Witness ==
    /\ op = "download_file"
    /\ Len(Segments) = 3
    /\ Len(SegmentCalls) = 3
    /\ SegmentCalls[1].found.id = <<"i", "1">>
    /\ SegmentCalls[2].found.id = <<"i", "2">>
    /\ SegmentCalls[3].found # NoObject

DigitChoices == {<<d>> : d \in {"1", "2", "3", "4", "5", "6", "7", "8"}}

\* the documented extension of each format number
Extensions ==
    << <<"p", "d", "f">>, <<"d", "o", "c", "x">>, <<"o", "d", "t">>, <<"r", "t", "f">>,
       <<"t", "x", "t">>, <<"h", "t", "m", "l">>, <<"e", "p", "u", "b">>, <<"x", "l", "s", "x">> >>

Extension(choice) ==
    Extensions[CHOOSE n \in DOMAIN Extensions :
                 choice = << <<"1", "2", "3", "4", "5", "6", "7", "8">>[n] >>]

\* C6: once a valid format was chosen the export is invoked through
\* _execute with the identifier, the output path and the MIME hint, and the
\* success message is returned only after that invocation.
C6_ExportInvoked ==
    (/\ op = "download_file"
     /\ pc = "done"
     /\ prompts > 0
     /\ ret.t = "str")
    => \E i \in DOMAIN calls :
          calls[i].command =
            << <<"gdrive">>, <<"files">>, <<"export">>, <<"--mime">>,
               <<"application/">> \o Extension(format_choice),
               get(object.v, kId).v,
               cwd \o <<"/">> \o get(object.v, kName).v \o <<".">> \o Extension(format_choice) >>

\* the rows a listing stands for: one for each line of the documented form
RECURSIVE ExpectedRows(_)
ExpectedRows(lines) ==
    IF lines = <<>> THEN <<>>
    ELSE (IF Head(lines).valid THEN <<Head(lines).row>> ELSE <<>>) \o ExpectedRows(Tail(lines))

\* C7: format_output produces one row for each data line of the form
\* <id> <name> <type-keyword> <size-or-empty>, in order, with the type
\* translated, and none for any other line, wherever the valid line stands.
C7_OneRowPerValidLine ==
    (op \in Listings /\ pc = "done" /\ Last(calls).out = "str")
    => printed = ExpectedRows(listed)

\* C8: the record to_dict returns has the line's identifier, full name and
\* type keyword as Id, Name and Type, whatever the name, and its Type is never
\* the empty string.
C8_ToDictFields ==
    (/\ op \in NestedOps
     /\ object.t = "dict")
    => /\ get(object.v, kId) = Str(Last(SegmentCalls).found.id)
       /\ get(object.v, kName) = Str(Last(SegmentCalls).found.name)
       /\ get(object.v, kType) = Str(Last(SegmentCalls).found.type)
       /\ get(object.v, kType) # Str(<<>>)

\* C9: at the export prompt a line that is not one of "1".."8" leads to
\* another prompt, the first line that is one ends the prompting, and the
\* file is named with the extension documented for that number.
C9_FormatSelection ==
    (op = "download_file" /\ prompts > 0) =>
        /\ format_choice \notin DigitChoices => (pc = "format_choice" /\ ret = None)
        /\ format_choice \in DigitChoices =>
              /\ pc = "done"
              /\ exc = "none"
              /\ ret = Str(<<"O arquivo foi exportado com sucesso para '">> \o cwd \o <<"/">>
                           \o get(object.v, kName).v \o <<".">> \o Extension(format_choice) \o <<"'.">>)

\* C9 witness: after a line that is no format, the line "3" ended the flow.
C9_Witness ==
    /\ op = "download_file"
    /\ prompts = 2
    /\ format_choice = <<"3">>
    /\ pc = "done"

\* C10: Download of a path that resolves dispatches on the type the listing
\* reports: a document goes to the export flow and is never downloaded, a
\* folder is downloaded once with the recursive flag, anything else once
\* without it.
C10_DispatchOnListedType ==
    (/\ op = "download_file"
     /\ pc = "done"
     /\ Len(SegmentCalls) = Len(Segments)
     /\ Last(SegmentCalls).found # NoObject)
    => LET o == Last(SegmentCalls).found
       IN  /\ o.type = document => (prompts > 0 /\ ActionCalls = <<>>)
           /\ o.type = folder =>
                 (Len(ActionCalls) = 1 /\ ActionCalls[1].command =
                    << <<"gdrive">>, <<"files">>, <<"download">>, o.id, <<"--recursive">> >>)
           /\ o.type = regular =>
                 (Len(ActionCalls) = 1 /\ ActionCalls[1].command =
                    << <<"gdrive">>, <<"files">>, <<"download">>, o.id >>)

====
